---------------------------- MODULE Spec2Model ----------------------------
(***************************************************************************)
(* Model of the Simplex Calculator engine: SimplexSetup.get_fields,        *)
(* SimplexSolve.create_matrices, SimplexSolve.find_pivot and the loop of   *)
(* SimplexSolve.solve, as called from SimplexCalculator.calculate, and of  *)
(* the step navigation of a solved session with SimplexSolve.update_labels.*)
(*                                                                         *)
(* Numbers.  The program computes with Python ints and floats.  In Spec    *)
(* and the specifications built on it a number is the rational <<n, d>>    *)
(* (d > 0, lowest terms) that the Python value stands for, and the         *)
(* arithmetic is exact.  In SpecFloat a number is a Python value as it is: *)
(* an int <<n>> or a binary64 float <<s, m, e>>, and every operation on    *)
(* floats rounds as IEEE 754 does.  The operations RAdd, RMul, RDiv and    *)
(* RLt tell the two by the length of their operands.                       *)
(* Sequences are 1-based here, lists are 0-based in the program: row r of  *)
(* the program is row r + 1 of the model, and likewise for columns.        *)
(*                                                                         *)
(* Objects.  A tableau is a mutable list of lists in the program and       *)
(* soln_matrices holds references to such lists.  The model keeps the      *)
(* tableaux in a heap (a sequence of matrices) and a reference is an index *)
(* into the heap, so that aliasing and deepcopy are part of the model.     *)
(* The SimplexSolve objects are numbered as they are made; simplex_solve   *)
(* is None or <<k>>, a reference to object k, and a label of the solution  *)
(* table is <<k, row, col>>: the label that object k put at that place of  *)
(* the layout, row 0 being the header.                                     *)
(***************************************************************************)
EXTENDS Integers, Sequences, FiniteSets, TLC

VARIABLES
    SLEVars,        \* SimplexSetup.SLEVars: one [val, constraint_col] per variable
    SLEIneqs,       \* SimplexSetup.SLEIneqs[1:]: the RHS field of every constraint
    is_maximize,    \* SimplexCalculator.is_maximize
    val_matrix,     \* create_matrices: the local val_matrix
    heap,           \* the tableau objects, by reference
    soln_matrices,  \* SimplexSolve.soln_matrices: references into heap
    matrix,         \* solve: the local matrix (a reference), 0 outside solve
    pivot,          \* solve: (pivot_row, pivot_col, pivot) of the last find_pivot
    pivots,         \* number of completed iterations of the loop of solve
    simplex_solve,  \* SimplexCalculator.simplex_solve: None or the object
    soln_index,     \* SimplexSolve.soln_index (0-based, as in the program)
    label_matrix,   \* SimplexSolve.label_matrix: the text of every table label
    soln_step_label,\* the text of SimplexCalculator.soln_step_label
    variables_edit, \* the number in the "Set Variables" field
    constraints_edit,\* the number in the "Set Constraints" field
    max_min_button, \* the text of SimplexCalculator.max_min_button
    ineq_labels,    \* the text of SLEIneqs[i].label, for every constraint
    current_screen, \* SimplexCalculator.current_screen
    previous_screen,\* SimplexCalculator.previous_screen
    shown,          \* the screens that are shown (not hidden)
    soln_table_layout, \* the labels in SimplexCalculator.soln_table_layout
    header_labels,  \* SimplexSolve.header_labels: the text of every header
    this,           \* the number of SimplexSolve objects made so far: the
                    \* fields above are those of the last one made
    old,            \* the fields of the SimplexSolve made before, while
                    \* simplex_solve may still refer to it; None otherwise
    pc              \* position of control

vars == <<SLEVars, SLEIneqs, is_maximize, val_matrix, heap, soln_matrices,
          matrix, pivot, pivots, simplex_solve, soln_index, label_matrix,
          soln_step_label, variables_edit, constraints_edit, max_min_button,
          ineq_labels, current_screen, previous_screen, shown,
          soln_table_layout, header_labels, this, old, pc>>

setupVars == <<SLEVars, SLEIneqs, is_maximize, variables_edit, constraints_edit,
               max_min_button, ineq_labels>>

screenVars == <<current_screen, previous_screen, shown>>

objectVars == <<soln_table_layout, header_labels, this, old>>

solveVars == <<val_matrix, heap, soln_matrices, matrix, pivot, pivots,
               simplex_solve>>

labelVars == <<soln_index, label_matrix, soln_step_label>>

---------------------------------------------------------------------------
(* Bounds of the model.                                                    *)

\* Largest number of variables plus constraints of an enumerated problem.
MaxWidth == 4

\* Cap on the iterations of the loop of solve.
MaxPivots == 6

\* Largest number of rows, and largest row length, of a table handed to the
\* builder alone.
MaxTableRows == 3

MaxRowLen == 2

\* Largest number of variables plus constraints of an enumerated problem
\* whose solved session is navigated.
MaxNavigateWidth == 3

\* The widest enumerated problem of the runs on binary64 floats.
MaxFloatWidth == 3

\* The largest numbers of variables and of constraints of the setup screen
\* (they stand for MAX_VARIABLES and MAX_CONSTRAINTS, which are 20), and the
\* largest number of fields of the setup screen that hold a text.
MaxVariables == 3

MaxConstraints == 3

MaxTyped == 2

\* The largest number of presses of the calculate button in one run.
MaxSessions == 2

---------------------------------------------------------------------------
(* Constants of the program and of its libraries.                          *)

START_VARIABLES == 2

START_CONSTRAINTS == 2

MIN_VARIABLES == 2

MIN_CONSTRAINTS == 1

\* Fraction.limit_denominator(max_denominator=1000000)
max_denominator == 1000000

\* repr of a float has at most 17 significant digits.
FloatDigits == 17

---------------------------------------------------------------------------
(* Numbers.                                                                *)

Abs(x) == IF x < 0 THEN -x ELSE x

RECURSIVE GCD(_, _)
GCD(a, b) == IF b = 0 THEN a ELSE GCD(b, a % b)

\* The rational n/d in lowest terms with a positive denominator.
Rat(n, d) ==
    LET g == GCD(Abs(n), Abs(d))
        s == IF d < 0 THEN -1 ELSE 1
    IN  <<(s * n) \div g, (s * d) \div g>>

R(i) == <<i, 1>>

Zero == R(0)

One == R(1)

---------------------------------------------------------------------------
(* Natural numbers of any size, for the 53-bit significands of binary64:   *)
(* a sequence of limbs in base 2^15, least significant first, with no zero *)
(* limb at its end; the empty sequence is 0.                               *)

LimbBits == 15

LimbBase == 32768

RECURSIVE Pow2(_)
Pow2(k) == IF k = 0 THEN 1 ELSE 2 * Pow2(k - 1)

RECURSIVE BigOf(_)
BigOf(n) == IF n = 0 THEN <<>> ELSE <<n % LimbBase>> \o BigOf(n \div LimbBase)

RECURSIVE IntOf(_)
IntOf(x) == IF x = <<>> THEN 0 ELSE x[1] + LimbBase * IntOf(Tail(x))

RECURSIVE BigTrim(_)
BigTrim(x) ==
    IF x = <<>> THEN x
    ELSE IF x[Len(x)] = 0 THEN BigTrim(SubSeq(x, 1, Len(x) - 1)) ELSE x

Limb(x, i) == IF i <= Len(x) THEN x[i] ELSE 0

RECURSIVE BigAddFrom(_, _, _, _)
BigAddFrom(x, y, i, carry) ==
    IF i > Len(x) /\ i > Len(y)
    THEN (IF carry = 0 THEN <<>> ELSE <<carry>>)
    ELSE LET t == Limb(x, i) + Limb(y, i) + carry
         IN  <<t % LimbBase>> \o BigAddFrom(x, y, i + 1, t \div LimbBase)

BigAdd(x, y) == BigAddFrom(x, y, 1, 0)

\* x - y for x >= y.
RECURSIVE BigSubFrom(_, _, _, _)
BigSubFrom(x, y, i, borrow) ==
    IF i > Len(x) THEN <<>>
    ELSE LET t == Limb(x, i) - Limb(y, i) - borrow
         IN  <<(t + LimbBase) % LimbBase>>
                 \o BigSubFrom(x, y, i + 1, IF t < 0 THEN 1 ELSE 0)

BigSub(x, y) == BigTrim(BigSubFrom(x, y, 1, 0))

RECURSIVE BigCmpFrom(_, _, _)
BigCmpFrom(x, y, i) ==
    IF i = 0 THEN 0
    ELSE IF x[i] < y[i] THEN -1
    ELSE IF x[i] > y[i] THEN 1
    ELSE BigCmpFrom(x, y, i - 1)

\* -1, 0 or 1 as x is below, equal to or above y.
BigCmp(x, y) ==
    IF Len(x) < Len(y) THEN -1
    ELSE IF Len(x) > Len(y) THEN 1
    ELSE BigCmpFrom(x, y, Len(x))

\* x * k for 0 <= k <= LimbBase.
RECURSIVE BigMulSmallFrom(_, _, _, _)
BigMulSmallFrom(x, k, i, carry) ==
    IF i > Len(x) THEN (IF carry = 0 THEN <<>> ELSE <<carry>>)
    ELSE LET t == x[i] * k + carry
         IN  <<t % LimbBase>> \o BigMulSmallFrom(x, k, i + 1, t \div LimbBase)

BigMulSmall(x, k) == BigTrim(BigMulSmallFrom(x, k, 1, 0))

RECURSIVE BigMulFrom(_, _, _)
BigMulFrom(x, y, i) ==
    IF i > Len(y) THEN <<>>
    ELSE BigAdd(BigMulSmallFrom(x, y[i], 1, 0), <<0>> \o BigMulFrom(x, y, i + 1))

BigMul(x, y) == BigTrim(BigMulFrom(x, y, 1))

ZeroLimbs(k) == [i \in 1..k |-> 0]

\* x * 2^k
BigShl(x, k) ==
    IF x = <<>> THEN x
    ELSE ZeroLimbs(k \div LimbBits) \o BigMulSmall(x, Pow2(k % LimbBits))

\* The quotient of x by d, 0 < d <= LimbBase, limb by limb from the top.
RECURSIVE BigDivSmallFrom(_, _, _, _)
BigDivSmallFrom(x, d, i, rem) ==
    IF i = 0 THEN <<>>
    ELSE LET t == rem * LimbBase + x[i]
         IN  BigDivSmallFrom(x, d, i - 1, t % d) \o <<t \div d>>

BigDivSmall(x, d) == BigTrim(BigDivSmallFrom(x, d, Len(x), 0))

\* x \div 2^k
BigShr(x, k) ==
    IF k \div LimbBits >= Len(x) THEN <<>>
    ELSE BigDivSmall(SubSeq(x, k \div LimbBits + 1, Len(x)), Pow2(k % LimbBits))

\* x % 2^k
BigLowBits(x, k) == BigSub(x, BigShl(BigShr(x, k), k))

RECURSIVE BitLen(_)
BitLen(n) == IF n = 0 THEN 0 ELSE 1 + BitLen(n \div 2)

BigBitLen(x) ==
    IF x = <<>> THEN 0 ELSE LimbBits * (Len(x) - 1) + BitLen(x[Len(x)])

\* Bit i of x, bit 0 the least significant.
BigBit(x, i) == (Limb(x, i \div LimbBits + 1) \div Pow2(i % LimbBits)) % 2

BigIsOdd(x) == x # <<>> /\ x[1] % 2 = 1

\* The number of zero bits x ends with from bit i on, x > 0 and i a
\* multiple of LimbBits.
RECURSIVE BigTrailingZeros(_, _)
BigTrailingZeros(x, i) ==
    IF Limb(x, i \div LimbBits + 1) = 0 THEN BigTrailingZeros(x, i + LimbBits)
    ELSE i + CHOOSE k \in 0..(LimbBits - 1) :
                 /\ BigBit(x, i + k) = 1
                 /\ \A j \in 0..(k - 1) : BigBit(x, i + j) = 0

\* The greatest digit k + j, j < 2^(bit + 1), with (k + j) y <= t.
RECURSIVE BigDigit(_, _, _, _)
BigDigit(t, y, k, bit) ==
    IF bit < 0 THEN k
    ELSE IF BigCmp(BigMulSmall(y, k + Pow2(bit)), t) <= 0
         THEN BigDigit(t, y, k + Pow2(bit), bit - 1)
         ELSE BigDigit(t, y, k, bit - 1)

\* Long division, limb by limb: q and r of the limbs of x from limb i up.
RECURSIVE BigDivModFrom(_, _, _)
BigDivModFrom(x, y, i) ==
    IF i > Len(x) THEN [q |-> <<>>, r |-> <<>>]
    ELSE LET above == BigDivModFrom(x, y, i + 1)
             t == BigTrim(<<x[i]>> \o above.r)
             digit == BigDigit(t, y, 0, LimbBits - 1)
         IN  [q |-> BigTrim(<<digit>> \o above.q),
              r |-> BigSub(t, BigMulSmall(y, digit))]

\* x = q y + r with 0 <= r < y, y > 0.
BigDivMod(x, y) == BigDivModFrom(x, y, 1)

---------------------------------------------------------------------------
(* binary64.  A float is <<s, m, e>> and stands for (-1)^s m 2^e, with m    *)
(* odd and of 53 bits at most; 0.0 is <<0, <<>>, 0>>, and -0.0, which       *)
(* compares equal to it, is not told apart.  Results are rounded to the    *)
(* nearest float, ties to the even significand.  The exponent is not       *)
(* bounded: no overflow and no subnormal number is met on the tableaux of  *)
(* the model.  A Python int of such a run is <<n>>.                        *)

Significand == 53

FloatZero == <<0, <<>>, 0>>

\* (-1)^s m 2^e with m made odd.
float_of(s, m, e) ==
    IF m = <<>> THEN FloatZero
    ELSE LET t == BigTrailingZeros(m, 0)
         IN  <<s, BigShr(m, t), e + t>>

\* The float nearest to (-1)^s (m + f) 2^e, where 0 <= f < 1 and sticky
\* says that f > 0; m has more than 53 bits when sticky holds.
float_round(s, m, e, sticky) ==
    IF BigBitLen(m) <= Significand THEN float_of(s, m, e)
    ELSE LET k == BigBitLen(m) - Significand
             q == BigShr(m, k)
             c == BigCmp(BigLowBits(m, k), BigShl(<<1>>, k - 1))
             up == c > 0 \/ (c = 0 /\ (sticky \/ BigIsOdd(q)))
         IN  float_of(s, IF up THEN BigAdd(q, <<1>>) ELSE q, e + k)

\* float(n) of a Python int.
float_from_int(n) == float_of(IF n < 0 THEN 1 ELSE 0, BigOf(Abs(n)), 0)

\* A number of a binary64 run as a float.
as_float(a) == IF Len(a) = 3 THEN a ELSE float_from_int(a[1])

is_int(a) == Len(a) < 3

float_mul(a, b) ==
    IF a[2] = <<>> \/ b[2] = <<>> THEN FloatZero
    ELSE float_round((a[1] + b[1]) % 2, BigMul(a[2], b[2]), a[3] + b[3], FALSE)

float_add(a, b) ==
    IF a[2] = <<>> THEN b
    ELSE IF b[2] = <<>> THEN a
    ELSE LET e == IF a[3] < b[3] THEN a[3] ELSE b[3]
             x == BigShl(a[2], a[3] - e)
             y == BigShl(b[2], b[3] - e)
             c == BigCmp(x, y)
         IN  IF a[1] = b[1] THEN float_round(a[1], BigAdd(x, y), e, FALSE)
             ELSE IF c = 0 THEN FloatZero
             ELSE IF c > 0 THEN float_round(a[1], BigSub(x, y), e, FALSE)
             ELSE float_round(b[1], BigSub(y, x), e, FALSE)

\* a / b, b not zero.
float_div(a, b) ==
    IF a[2] = <<>> THEN FloatZero
    ELSE LET gap == Significand + 2 + BigBitLen(b[2]) - BigBitLen(a[2])
             shift == IF gap > 0 THEN gap ELSE 0
             dm == BigDivMod(BigShl(a[2], shift), b[2])
         IN  float_round((a[1] + b[1]) % 2, dm.q, a[3] - b[3] - shift,
                         dm.r # <<>>)

\* abs(a) < abs(b)
float_abs_lt(a, b) ==
    IF b[2] = <<>> THEN FALSE
    ELSE IF a[2] = <<>> THEN TRUE
    ELSE LET e == IF a[3] < b[3] THEN a[3] ELSE b[3]
         IN  BigCmp(BigShl(a[2], a[3] - e), BigShl(b[2], b[3] - e)) < 0

float_lt(a, b) ==
    IF a[1] # b[1] THEN a[1] = 1
    ELSE IF a[1] = 0 THEN float_abs_lt(a, b)
    ELSE float_abs_lt(b, a)

\* int(a) of a float with an integral value.
float_to_int(a) ==
    (IF a[1] = 1 THEN -1 ELSE 1) * IntOf(BigShl(a[2], a[3]))

\* The operations of Python on ints and floats.
py_add(a, b) ==
    IF is_int(a) /\ is_int(b) THEN <<a[1] + b[1]>>
    ELSE float_add(as_float(a), as_float(b))

py_mul(a, b) ==
    IF is_int(a) /\ is_int(b) THEN <<a[1] * b[1]>>
    ELSE float_mul(as_float(a), as_float(b))

py_truediv(a, b) == float_div(as_float(a), as_float(b))

py_lt(a, b) ==
    IF is_int(a) /\ is_int(b) THEN a[1] < b[1]
    ELSE float_lt(as_float(a), as_float(b))

\* The loop of Fraction.limit_denominator on a float: n and d are of any
\* size, D is the denominator of the float, and the convergents are ints.
RECURSIVE float_limit_loop(_, _, _, _, _, _, _)
float_limit_loop(D, n, d, p0, q0, p1, q1) ==
    LET dm == BigDivMod(n, d)
        k == (max_denominator - q0) \div q1
    IN  IF q1 > 0 /\ BigCmp(dm.q, BigOf(k)) > 0
        THEN (IF BigCmp(BigMul(BigMulSmall(d, 2), BigOf(q0 + k * q1)), D) <= 0
              THEN Rat(p1, q1)
              ELSE Rat(p0 + k * p1, q0 + k * q1))
        ELSE float_limit_loop(D, d, dm.r, p1, q1, p0 + IntOf(dm.q) * p1,
                              q0 + IntOf(dm.q) * q1)

\* Fraction(val).limit_denominator() of a float that is not integral, as
\* <<numerator, denominator>>.  val is (-1)^s m / 2^-e; for a negative val
\* the first quotient of the loop, n // d, is negative and the loop goes
\* on with positive numbers.
float_limit_denominator(a) ==
    LET D == BigShl(<<1>>, -a[3])
        first == BigDivMod(a[2], D)
    IN  IF BigCmp(D, BigOf(max_denominator)) <= 0
        THEN <<(IF a[1] = 1 THEN -1 ELSE 1) * IntOf(a[2]), IntOf(D)>>
        ELSE IF a[1] = 0 THEN float_limit_loop(D, a[2], D, 0, 1, 1, 0)
        ELSE float_limit_loop(D, D, BigSub(D, first.r), 1, 0,
                              -(IntOf(first.q) + 1), 1)

---------------------------------------------------------------------------
(* The arithmetic of the program: exact on two rationals, that of Python   *)
(* once an int <<n>> or a float <<s, m, e>> is among the operands (the     *)
(* constants 0, 1 and -1 of the program are R(0), R(1) and R(-1) in both). *)

exact(a, b) == Len(a) = 2 /\ Len(b) = 2

RAdd(a, b) ==
    IF exact(a, b) THEN Rat(a[1] * b[2] + b[1] * a[2], a[2] * b[2])
    ELSE py_add(a, b)

RMul(a, b) ==
    IF exact(a, b) THEN Rat(a[1] * b[1], a[2] * b[2]) ELSE py_mul(a, b)

\* a / b of the program; b is never zero where the program divides.
RDiv(a, b) ==
    IF exact(a, b) THEN Rat(a[1] * b[2], a[2] * b[1]) ELSE py_truediv(a, b)

RLt(a, b) == IF exact(a, b) THEN a[1] * b[2] < b[1] * a[2] ELSE py_lt(a, b)

\* float.is_integer()
is_integer(a) ==
    IF Len(a) = 3 THEN a[3] >= 0 ELSE IF Len(a) = 2 THEN a[2] = 1 ELSE TRUE

RECURSIVE IsPowerOfTwo(_)
IsPowerOfTwo(d) == d = 1 \/ (d % 2 = 0 /\ IsPowerOfTwo(d \div 2))

\* x/pivot and row_vector[i] += ... are operations on Python ints and
\* floats: the result is a binary64 float, which is a rational whose
\* denominator is a power of two.  The float holds the rational a only if a
\* is one of these.
is_binary64(a) == IsPowerOfTwo(a[2])

\* int(): truncation towards zero.
int(a) ==
    IF Len(a) = 3 THEN <<float_to_int(a)>>
    ELSE IF Len(a) = 1 THEN a
    ELSE IF a[1] >= 0 THEN R(a[1] \div a[2]) ELSE R(-((-a[1]) \div a[2]))

Last(s) == s[Len(s)]

Front(s) == SubSeq(s, 1, Len(s) - 1)

SetMin(S) == CHOOSE x \in S : \A y \in S : x <= y

---------------------------------------------------------------------------
(* SimplexSetup.get_fields                                                 *)

\* A field left blank.
Blank == <<0, 0>>

\* float(widget.text()) if widget.text() else 0.0
get_component(field) == IF field = Blank THEN Zero ELSE field

\* list(map(list, zip(*m))): zip stops at the shortest row.
transpose_rows(m) ==
    IF Len(m) = 0 THEN <<>>
    ELSE LET k == SetMin({Len(m[i]) : i \in 1..Len(m)})
         IN  [c \in 1..k |-> [r \in 1..Len(m) |-> m[r][c]]]

\* The matrix as get_fields builds it first: one row per variable (its
\* constraint column, then its objective coefficient) and a bottom row of
\* the inequality fields, closed by 0.0.
fields_by_variable(vs, qs) ==
    [i \in 1..(Len(vs) + 1) |->
        IF i <= Len(vs)
        THEN [k \in 1..(Len(vs[i].constraint_col) + 1) |->
                 IF k <= Len(vs[i].constraint_col)
                 THEN get_component(vs[i].constraint_col[k])
                 ELSE get_component(vs[i].val)]
        ELSE [k \in 1..(Len(qs) + 1) |->
                 IF k <= Len(qs) THEN get_component(qs[k]) ELSE Zero]]

\* The transpose argument ignored.
get_fields_untransposed(vs, qs, transpose) ==
    transpose_rows(fields_by_variable(vs, qs))

get_fields(vs, qs, transpose) ==
    IF transpose THEN fields_by_variable(vs, qs)
    ELSE transpose_rows(fields_by_variable(vs, qs))

---------------------------------------------------------------------------
(* SimplexSetup.update and the fields that call it                         *)

\* k new fields, blank.
blanks(k) == [i \in 1..k |-> Blank]

\* list.pop(i): the list without its element of index i (0-based).
pop(s, i) == SubSeq(s, 1, i) \o SubSeq(s, i + 2, Len(s))

\* for i in range(lo, hi)[::-1]: s.pop(i)
RECURSIVE pop_range(_, _, _)
pop_range(s, lo, hi) ==
    IF hi <= lo THEN s ELSE pop_range(pop(s, hi - 1), lo, hi - 1)

\* range(crnt_con_num): the constraints there were before this update.
new_constraint_col_current(crnt_con_num, edit_con_num) == blanks(crnt_con_num)

\* The constraint column of a new variable: range(edit_con_num).
new_constraint_col(crnt_con_num, edit_con_num) == blanks(edit_con_num)

\* The first half of update: constraints and inequalities are added to or
\* removed from every variable there is.  SLEIneqs[0], the field of the
\* objective, is not part of qs: SLEIneqs.pop(i + 1) is pop(qs, i).
update_constraints(vs, qs, crnt_con_num, edit_con_num) ==
    IF edit_con_num > crnt_con_num
    THEN [SLEVars |->
              [j \in 1..Len(vs) |->
                  [vs[j] EXCEPT !.constraint_col =
                       @ \o blanks(edit_con_num - crnt_con_num)]],
          SLEIneqs |-> qs \o blanks(edit_con_num - crnt_con_num)]
    ELSE IF edit_con_num < crnt_con_num
    THEN [SLEVars |->
              [j \in 1..Len(vs) |->
                  [vs[j] EXCEPT !.constraint_col =
                       pop_range(@, edit_con_num, crnt_con_num)]],
          SLEIneqs |-> pop_range(qs, edit_con_num, crnt_con_num)]
    ELSE [SLEVars |-> vs, SLEIneqs |-> qs]

\* The second half of update: variables are added or removed.
update_variables(vs, crnt_con_num, edit_con_num, crnt_var_num, edit_var_num) ==
    IF edit_var_num > crnt_var_num
    THEN vs \o [j \in 1..(edit_var_num - crnt_var_num) |->
                   [val |-> Blank,
                    constraint_col |->
                        new_constraint_col(crnt_con_num, edit_con_num)]]
    ELSE IF edit_var_num < crnt_var_num
    THEN pop_range(vs, edit_var_num, crnt_var_num)
    ELSE vs

\* SimplexSetup.update with the numbers of the two edit fields.
update(vs, qs, edit_var_num, edit_con_num) ==
    LET crnt_con_num == IF Len(vs) = 0 THEN 0 ELSE Len(vs[1].constraint_col)
        crnt_var_num == Len(vs)
        u == update_constraints(vs, qs, crnt_con_num, edit_con_num)
    IN  [SLEVars |-> update_variables(u.SLEVars, crnt_con_num, edit_con_num,
                                      crnt_var_num, edit_var_num),
         SLEIneqs |-> u.SLEIneqs]

\* SimplexCalculator.QLE_valid_range, on the number the text stands for (0
\* for a text that is no number).
QLE_valid_range(value, start, stop) ==
    IF value > stop THEN stop ELSE IF value < start THEN start ELSE value

\* SimplexCalculator.QLE_inc_dec
QLE_inc_dec(value, start, stop, increment) ==
    IF increment /\ value < stop THEN value + 1
    ELSE IF ~increment /\ value > start THEN value - 1
    ELSE value

---------------------------------------------------------------------------
(* SimplexSolve.create_matrices: the initial solution matrix.              *)

\* list.append(v) in place of list.insert(-1, v).
insert_at_end(s, v) == s \o <<v>>

\* list.insert(-1, v): before the last element; into an empty list, at 0.
insert_before_last(s, v) ==
    IF Len(s) = 0 THEN <<v>> ELSE Front(s) \o <<v>> \o <<Last(s)>>

\* 1 if i == k - 1 - row else 0: the unit entries on the other diagonal.
RECURSIVE insert_slack_reversed(_, _, _, _)
insert_slack_reversed(s, row, i, k) ==
    IF i >= k THEN s
    ELSE insert_slack_reversed(
             insert_before_last(s, IF i = k - 1 - row THEN One ELSE Zero),
             row, i + 1, k)

\* for i in range(k): soln_matrix[row].insert(-1, 1 if i == row else 0),
\* started at i (0-based, as row is).
RECURSIVE insert_slack(_, _, _, _)
insert_slack(s, row, i, k) ==
    IF i >= k THEN s
    ELSE insert_slack(insert_before_last(s, IF i = row THEN One ELSE Zero),
                      row, i + 1, k)

\* The values of one row: int cast, then the sign flip on the last row.
row_values(vm, row) ==
    [col \in 1..Len(vm[row]) |->
        LET v0 == vm[row][col]
            v1 == IF is_integer(v0) THEN int(v0) ELSE v0
        IN  IF row = Len(vm) THEN RMul(v1, R(-1)) ELSE v1]

\* for i in range(len(val_matrix) - 1): no entry for the objective row.
create_soln_matrix_short(vm) ==
    [row \in 1..Len(vm) |->
        insert_slack(row_values(vm, row), row - 1, 0, Len(vm) - 1)]

create_soln_matrix(vm) ==
    [row \in 1..Len(vm) |-> insert_slack(row_values(vm, row), row - 1, 0, Len(vm))]

\* The slack values inserted into the rows of val_matrix, not of soln_matrix.
val_matrix_with_slack(vm) ==
    [row \in 1..Len(vm) |-> insert_slack(vm[row], row - 1, 0, Len(vm))]

\* val_matrix after create_matrices: the rows of soln_matrix are new lists
\* (soln_matrix.append([])) and val_matrix is only read.
val_matrix_after(vm) == vm

---------------------------------------------------------------------------
(* SimplexSolve.solve and SimplexSolve.find_pivot                          *)

\* The sign test on the first entry of the row only.
is_negative_first(matrix_row) == RLt(matrix_row[1], Zero)

\* is_negative(matrix_row)
is_negative(matrix_row) == \E i \in 1..Len(matrix_row) : RLt(matrix_row[i], Zero)

\* min(seq) of Python for a non-empty list of numbers: a least element.
min_of(s) == CHOOSE x \in {s[i] : i \in 1..Len(s)} :
                 \A i \in 1..Len(s) : ~RLt(s[i], x)

\* list.index(x): the first position holding x.
index_of(s, x) == SetMin({i \in 1..Len(s) : s[i] = x})

\* pivot_col = matrix[-1].index(min(matrix[-1]))
find_pivot_col(m) == index_of(Last(m), min_of(Last(m)))

None == <<>>

\* x[pivot_col] != 0 in place of x[pivot_col] > 0.
divided_col_nonzero(m, pc0) ==
    [r \in 1..(Len(m) - 1) |->
        IF m[r][pc0] # Zero THEN RDiv(Last(m[r]), m[r][pc0]) ELSE None]

\* divided_col: the ratio of every row but the last, None where the entry of
\* the pivot column is not positive.
divided_col(m, pc0) ==
    [r \in 1..(Len(m) - 1) |->
        IF RLt(Zero, m[r][pc0]) THEN RDiv(Last(m[r]), m[r][pc0]) ELSE None]

not_none(s) == SelectSeq(s, LAMBDA x : x # None)

\* min() of an empty list raises ValueError.
find_pivot_raises(m) == not_none(divided_col(m, find_pivot_col(m))) = <<>>

SetMax(S) == CHOOSE x \in S : \A y \in S : y <= x

\* The last row of smallest ratio in place of the first.
find_pivot_row_last(m, pc0) ==
    SetMax({r \in 1..(Len(m) - 1) :
               divided_col(m, pc0)[r] = min_of(not_none(divided_col(m, pc0)))})

max_of(s) == CHOOSE x \in {s[i] : i \in 1..Len(s)} :
                 \A i \in 1..Len(s) : ~RLt(x, s[i])

\* The row of largest ratio in place of the smallest.
find_pivot_row_max(m, pc0) ==
    index_of(divided_col(m, pc0), max_of(not_none(divided_col(m, pc0))))

find_pivot_row(m, pc0) ==
    index_of(divided_col(m, pc0), min_of(not_none(divided_col(m, pc0))))

find_pivot(m) ==
    LET pc0 == find_pivot_col(m)
        pr == find_pivot_row(m, pc0)
    IN  [row |-> pr, col |-> pc0, val |-> m[pr][pc0]]

\* The pivot row left undivided.
divide_pivot_row_skipped(m, p) == m

\* matrix[pivot_row] = [x/pivot for x in matrix[pivot_row]]
divide_pivot_row(m, p) ==
    [m EXCEPT ![p.row] = [i \in 1..Len(m[p.row]) |-> RDiv(m[p.row][i], p.val)]]

\* val read again from the row at every entry: it is 0 once the entry of the
\* pivot column is cleared.
clear_pivot_col_late(m, p) ==
    [r \in 1..Len(m) |->
        IF r = p.row THEN m[r]
        ELSE [i \in 1..Len(m[r]) |->
                 IF i <= p.col
                 THEN RAdd(m[r][i], RMul(RMul(R(-1), m[r][p.col]), m[p.row][i]))
                 ELSE m[r][i]]]

\* row_vector[i] += (-1)*val*matrix[pivot_row][i], for every other row, with
\* val read from the row before its first entry is changed.
clear_pivot_col(m, p) ==
    [r \in 1..Len(m) |->
        IF r = p.row THEN m[r]
        ELSE [i \in 1..Len(m[r]) |->
                 RAdd(m[r][i], RMul(RMul(R(-1), m[r][p.col]), m[p.row][i]))]]

row_reduce(m, p) == clear_pivot_col(divide_pivot_row(m, p), p)

\* The same object in place of a copy.
deepcopy_alias(h, ref) == [heap |-> h, ref |-> ref]

\* copy.deepcopy of the object ref: a new object with equal entries.
deepcopy(h, ref) == [heap |-> Append(h, h[ref]), ref |-> Len(h) + 1]

NoPivot == [row |-> 0, col |-> 0, val |-> Zero]

---------------------------------------------------------------------------
(* SimplexSolve.update_labels and the labels of create_matrices            *)

\* s[i] of Python: a negative index counts from the end.
at(s, i) == IF i >= 0 THEN s[i + 1] ELSE s[Len(s) + i + 1]

\* The digits after the decimal point of r/d, 0 <= r < d, k of them at most.
RECURSIVE frac_digits(_, _, _)
frac_digits(r, d, k) ==
    IF r = 0 \/ k = 0 THEN ""
    ELSE ToString((r * 10) \div d) \o frac_digits((r * 10) % d, d, k - 1)

\* str(val) of a float that is not integral.
str_float(a) ==
    (IF a[1] < 0 THEN "-" ELSE "") \o ToString(Abs(a[1]) \div a[2]) \o "."
        \o frac_digits(Abs(a[1]) % a[2], a[2], FloatDigits)

\* str(val) in create_matrices: integral values were cast to int.
str(a) == IF is_integer(a) THEN ToString(int(a)[1]) ELSE str_float(a)

\* The loop of Fraction.limit_denominator on n/d with the convergents
\* p0/q0 and p1/q1: it ends with the closer to a of its two bounds, bound2
\* = p1/q1 and bound1 = (p0 + k p1)/(q0 + k q1).  bound2 is at distance
\* d/(q1 a[2]) from a and the bounds are 1/(q1 (q0 + k q1)) apart, so that
\* abs(bound2 - a) <= abs(bound1 - a) is 2 d (q0 + k q1) <= a[2].
RECURSIVE limit_loop(_, _, _, _, _, _, _)
limit_loop(a, n, d, p0, q0, p1, q1) ==
    LET x == n \div d
        q2 == q0 + x * q1
    IN  IF q2 > max_denominator
        THEN LET k == (max_denominator - q0) \div q1
                 bound1 == Rat(p0 + k * p1, q0 + k * q1)
                 bound2 == Rat(p1, q1)
             IN  IF 2 * d * (q0 + k * q1) <= a[2] THEN bound2 ELSE bound1
        ELSE limit_loop(a, d, n - x * d, p1, q1, p0 + x * p1, q2)

\* Fraction(val).limit_denominator()
limit_denominator(a) ==
    IF Len(a) = 3 THEN float_limit_denominator(a)
    ELSE IF a[2] <= max_denominator THEN a
    ELSE limit_loop(a, a[1], a[2], 0, 1, 1, 0)

\* str(fraction)
str_fraction(a) ==
    IF a[2] = 1 THEN ToString(a[1])
    ELSE ToString(a[1]) \o "/" \o ToString(a[2])

\* The text update_labels gives the label of val.
label_text(val) ==
    IF is_integer(val) THEN ToString(int(val)[1])
    ELSE str_fraction(limit_denominator(val))

\* The step number without the + 1.
step_text_index(index, total) == ToString(index) \o " / " \o ToString(total)

\* f"{self.soln_index + 1} / {len(self.soln_matrices)}"
step_text(index, total) == ToString(index + 1) \o " / " \o ToString(total)

\* update_labels: the texts of the labels and of the step label.
update_labels(lm, h, sm, index) ==
    [label_matrix |->
         [row \in 1..Len(lm) |->
             [col \in 1..Len(lm[row]) |-> label_text(h[at(sm, index)][row][col])]],
     soln_step_label |-> step_text(index, Len(sm))]

\* create_matrices: one label per entry of soln_matrix, showing str(val).
create_labels(soln_matrix) ==
    [row \in 1..Len(soln_matrix) |->
        [col \in 1..Len(soln_matrix[row]) |-> str(soln_matrix[row][col])]]

\* create_matrices: the texts of the header labels, widget.get_name() of
\* every widget of widget_list and a blank label.  The name fields hold
\* their default texts, written here without subscripts.
create_header_labels(vs, is_max) ==
    LET var_names == [j \in 1..Len(vs) |-> "X" \o ToString(j)]
        con_names == [i \in 1..Len(vs[1].constraint_col) |-> "S" \o ToString(i)]
    IN  (IF is_max THEN var_names \o con_names ELSE con_names \o var_names)
            \o <<"Z">> \o <<"">>

\* The labels that object k holds in its lists header_labels and
\* label_matrix: layout.addWidget(label, 0, col) and
\* layout.addWidget(label, row + 1, col) put them into the layout.
labels_of(k, headers, labels) ==
    {<<k, 0, col>> : col \in 1..Len(headers)}
    \cup UNION {{<<k, row, col>> : col \in 1..Len(labels[row])} :
                  row \in 1..Len(labels)}

\* SimplexSolve.delete on the lists of an object: every label is popped.
deleted_object(obj) ==
    [obj EXCEPT !.header_labels = <<>>,
                !.label_matrix = [row \in 1..Len(@) |-> <<>>]]

\* SimplexSolve.delete on the layout: layout.removeWidget of every label
\* popped.
layout_after_delete(layout, obj) ==
    layout \ labels_of(obj.id, obj.header_labels, obj.label_matrix)

---------------------------------------------------------------------------
(* The screens and the buttons of the setup screen.                        *)

\* The inequality label of a constraint row in each mode.
ineq_text(is_max) == IF is_max THEN "<=" ELSE ">="

\* SLEIneq.__init__: label_text = "<=" for every row but that of the
\* objective.
new_ineq_label == "<="

\* previous_screen = current_screen, whatever the screens.
previous_screen_plain(current, new) == current

\* change_screens: the new value of previous_screen.
previous_screen_after(current, new) ==
    IF current = "settings" /\ new = "soln" THEN "setup" ELSE current

\* SimplexCalculator.change_screens(new_screen)
change_screens(new_screen) ==
    /\ shown' = (shown \ {current_screen}) \cup {new_screen}
    /\ previous_screen' = previous_screen_after(current_screen, new_screen)
    /\ current_screen' = new_screen

\* No handler runs and the application has not ended.
Idle == pc \in {"setup", "optimal", "unbounded"}

---------------------------------------------------------------------------
(* The problems the model is run on.                                       *)

\* Field values of the enumerated problems: constraint coefficients,
\* constraint right-hand sides, objective coefficients.
CoefVals == {R(0), R(1), R(2)}

RhsVals == {R(-1), R(2)}

ObjVals == {R(1), R(2)}

SetupsOf(n, m) ==
    {[vars |-> v, ineqs |-> q] :
        v \in [1..n -> [val : ObjVals, constraint_col : [1..m -> CoefVals]]],
        q \in [1..m -> RhsVals]}

Shapes == {nm \in (1..MaxWidth) \X (1..MaxWidth) : nm[1] + nm[2] <= MaxWidth}

EnumeratedSetups == UNION {SetupsOf(nm[1], nm[2]) : nm \in Shapes}

\* 12x1 + 16x2, x1 + 2x2 <= 40, x1 + x2 <= 30
Scenario1 ==
    [vars |-> <<[val |-> R(12), constraint_col |-> <<R(1), R(1)>>],
                [val |-> R(16), constraint_col |-> <<R(2), R(1)>>]>>,
     ineqs |-> <<R(40), R(30)>>]

\* x1, -x1 <= 10
Scenario2 ==
    [vars |-> <<[val |-> R(1), constraint_col |-> <<R(-1)>>]>>,
     ineqs |-> <<R(10)>>]

\* 2x1, x1 <= 5
Scenario3 ==
    [vars |-> <<[val |-> R(2), constraint_col |-> <<R(1)>>]>>,
     ineqs |-> <<R(5)>>]

\* x1, 3x1 <= 1
ScenarioThird ==
    [vars |-> <<[val |-> R(1), constraint_col |-> <<R(3)>>]>>,
     ineqs |-> <<R(1)>>]

\* 0.5x1 + (blank)x2, 0.5x1 + x2 <= 3
ScenarioHalf ==
    [vars |-> <<[val |-> <<1, 2>>, constraint_col |-> <<(<<1, 2>>)>>],
                [val |-> Blank, constraint_col |-> <<R(1)>>]>>,
     ineqs |-> <<R(3)>>]

\* (blank)x1, x1 <= 2
ScenarioNoPivot ==
    [vars |-> <<[val |-> Blank, constraint_col |-> <<R(1)>>]>>,
     ineqs |-> <<R(2)>>]

\* x1 + 2x2, x1 + x2 <= 0, x1 + 2x2 <= 2
ScenarioDegenerate ==
    [vars |-> <<[val |-> R(1), constraint_col |-> <<R(1), R(1)>>],
                [val |-> R(2), constraint_col |-> <<R(1), R(2)>>]>>,
     ineqs |-> <<R(0), R(2)>>]

\* x1, 3x1 <= 10
ScenarioTenThirds ==
    [vars |-> <<[val |-> R(1), constraint_col |-> <<R(3)>>]>>,
     ineqs |-> <<R(10)>>]

\* x1, 2x1 <= 6
ScenarioSixHalves ==
    [vars |-> <<[val |-> R(1), constraint_col |-> <<R(2)>>]>>,
     ineqs |-> <<R(6)>>]

\* 10x1 - 57x2 - 9x3 - 24x4, x1/2 - 11x2/2 - 5x3/2 + 9x4 <= 0,
\* x1/2 - 3x2/2 - x3/2 + x4 <= 0, x1 <= 1
ScenarioCycling ==
    [vars |-> <<[val |-> R(10),
                 constraint_col |-> <<(<<1, 2>>), (<<1, 2>>), R(1)>>],
                [val |-> R(-57),
                 constraint_col |-> <<(<<-11, 2>>), (<<-3, 2>>), R(0)>>],
                [val |-> R(-9),
                 constraint_col |-> <<(<<-5, 2>>), (<<-1, 2>>), R(0)>>],
                [val |-> R(-24),
                 constraint_col |-> <<R(9), R(1), R(0)>>]>>,
     ineqs |-> <<R(0), R(0), R(1)>>]

\* x1, 1000003x1 <= 1
ScenarioBigDenominator ==
    [vars |-> <<[val |-> R(1), constraint_col |-> <<R(1000003)>>]>>,
     ineqs |-> <<R(1)>>]

\* x1 + 2x2, x1 + 2x2 <= 2, x2 <= 2: three pivots when minimised
ScenarioThreePivots ==
    [vars |-> <<[val |-> R(1), constraint_col |-> <<R(1), R(0)>>],
                [val |-> R(2), constraint_col |-> <<R(2), R(1)>>]>>,
     ineqs |-> <<R(2), R(2)>>]

Scenarios ==
    {Scenario1, Scenario2, Scenario3, ScenarioThird, ScenarioHalf,
     ScenarioNoPivot, ScenarioDegenerate, ScenarioTenThirds,
     ScenarioSixHalves, ScenarioBigDenominator, ScenarioCycling,
     ScenarioThreePivots}

Setups == EnumeratedSetups \cup Scenarios

---------------------------------------------------------------------------
(* The engine, from SimplexCalculator.calculate to the end of solve.       *)

Init ==
    /\ \E s \in Setups : SLEVars = s.vars /\ SLEIneqs = s.ineqs
    /\ is_maximize \in BOOLEAN
    /\ val_matrix = <<>>
    /\ heap = <<>>
    /\ soln_matrices = <<>>
    /\ matrix = 0
    /\ pivot = NoPivot
    /\ pivots = 0
    /\ simplex_solve = None
    /\ soln_index = 0
    /\ label_matrix = <<>>
    /\ soln_step_label = ""
    /\ variables_edit = Len(SLEVars)
    /\ constraints_edit = Len(SLEIneqs)
    /\ max_min_button = (IF is_maximize THEN "Maximize" ELSE "Minimize")
    /\ ineq_labels = [i \in 1..Len(SLEIneqs) |-> ineq_text(is_maximize)]
    /\ current_screen = "setup"
    /\ previous_screen = "setup"
    /\ shown = {"setup"}
    /\ soln_table_layout = {}
    /\ header_labels = <<>>
    /\ this = 0
    /\ old = None
    /\ pc = "setup"

\* The fields of the object that simplex_solve refers to: the last object
\* made, or the one made before it when the last __init__ raised.
referred ==
    IF simplex_solve = <<this>>
    THEN [id |-> this, soln_index |-> soln_index,
          soln_matrices |-> soln_matrices, header_labels |-> header_labels,
          label_matrix |-> label_matrix]
    ELSE old

\* The calculate button of the setup screen.  calculate deletes the labels
\* of the object simplex_solve refers to, changes to the solution screen
\* and makes a new SimplexSolve: __init__ sets soln_index and the empty
\* lists, runs create_matrices (the first tableau, the header labels and
\* the labels of the table), then solve up to its loop.
Calculate ==
    /\ Idle
    /\ current_screen = "setup"
    /\ this < MaxSessions
    /\ LET vm == get_fields(SLEVars, SLEIneqs, ~is_maximize)
           h1 == Append(heap, create_soln_matrix(vm))
           dc == deepcopy(h1, Len(h1))
       IN  /\ val_matrix' = val_matrix_after(vm)
           /\ soln_matrices' = Append(<<>>, Len(h1))
           /\ heap' = dc.heap
           /\ matrix' = dc.ref
    /\ label_matrix' = create_labels(heap'[Last(soln_matrices')])
    /\ header_labels' = create_header_labels(SLEVars, is_maximize)
    /\ this' = this + 1
    /\ old' = (IF simplex_solve = None THEN old ELSE deleted_object(referred))
    /\ soln_table_layout' =
           (IF simplex_solve = None THEN soln_table_layout
            ELSE layout_after_delete(soln_table_layout, referred))
               \cup labels_of(this', header_labels', label_matrix')
    /\ change_screens("soln")
    /\ soln_index' = 0
    /\ pivot' = NoPivot
    /\ pivots' = 0
    /\ pc' = "solving"
    /\ UNCHANGED <<setupVars, simplex_solve, soln_step_label>>

\* One iteration of the loop of solve.
Pivot ==
    /\ pc = "solving"
    /\ pivots < MaxPivots
    /\ is_negative(Last(heap[matrix]))
    /\ ~find_pivot_raises(heap[matrix])
    /\ LET p == find_pivot(heap[matrix])
           h1 == [heap EXCEPT ![matrix] = row_reduce(heap[matrix], p)]
           sm == Append(soln_matrices, matrix)
           dc == deepcopy(h1, Last(sm))
       IN  /\ pivot' = p
           /\ soln_matrices' = sm
           /\ heap' = dc.heap
           /\ matrix' = dc.ref
    /\ pivots' = pivots + 1
    /\ UNCHANGED <<setupVars, val_matrix, simplex_solve, labelVars, screenVars,
                   objectVars, pc>>

\* find_pivot raises ValueError: it leaves solve, __init__ and calculate,
\* and the assignment to self.simplex_solve is never made.
PivotRaises ==
    /\ pc = "solving"
    /\ is_negative(Last(heap[matrix]))
    /\ find_pivot_raises(heap[matrix])
    /\ pc' = "unbounded"
    /\ UNCHANGED <<setupVars, val_matrix, heap, soln_matrices, matrix, pivot,
                   pivots, simplex_solve, labelVars, screenVars, objectVars>>

\* The loop ends, __init__ runs update_labels and returns, and calculate
\* stores the object.
SolveReturns ==
    /\ pc = "solving"
    /\ ~is_negative(Last(heap[matrix]))
    /\ LET u == update_labels(label_matrix, heap, soln_matrices, soln_index)
       IN  /\ label_matrix' = u.label_matrix
           /\ soln_step_label' = u.soln_step_label
    /\ simplex_solve' = <<this>>
    /\ pc' = "optimal"
    /\ UNCHANGED <<setupVars, val_matrix, heap, soln_matrices, matrix, pivot,
                   pivots, soln_index, screenVars, objectVars>>

\* The frame of the four navigation operations, and their update_labels
\* at the new index.
show_step(index) ==
    /\ soln_index' = index
    /\ LET u == update_labels(label_matrix, heap, soln_matrices, index)
       IN  /\ label_matrix' = u.label_matrix
           /\ soln_step_label' = u.soln_step_label
    /\ UNCHANGED <<setupVars, val_matrix, heap, matrix, pivot, pivots,
                   simplex_solve, screenVars, objectVars, pc>>

\* update_labels of the object made before the last one, after its delete:
\* its lists of labels are empty and only the step label gets a text.
show_old_step(index) ==
    /\ old' = [old EXCEPT !.soln_index = index]
    /\ soln_step_label' = step_text(index, Len(old.soln_matrices))
    /\ UNCHANGED <<setupVars, solveVars, soln_index, label_matrix, screenVars,
                   soln_table_layout, header_labels, this, pc>>

\* The four buttons are on the solution screen and call a method of
\* self.simplex_solve: of the last object made when its __init__ returned,
\* of the one before it when it raised; on None the call raises
\* AttributeError and nothing changes.
on_last_object == simplex_solve = <<this>>

\* The next button of the solution screen: simplex_solve.next_step().
next_step ==
    /\ Idle
    /\ current_screen = "soln"
    /\ IF simplex_solve = None THEN UNCHANGED vars
       ELSE IF on_last_object
       THEN (IF soln_index + 1 < Len(soln_matrices)
             THEN show_step(soln_index + 1) /\ UNCHANGED soln_matrices
             ELSE UNCHANGED vars)
       ELSE (IF old.soln_index + 1 < Len(old.soln_matrices)
             THEN show_old_step(old.soln_index + 1)
             ELSE UNCHANGED vars)

\* if self.soln_index >= 0
can_step_back_at_zero(index) == index >= 0

\* if self.soln_index > 0
can_step_back(index) == index > 0

\* self.soln_index = 0
prev_index_first(index) == 0

\* self.soln_index -= 1
prev_index(index) == index - 1

\* The previous button: simplex_solve.prev_step().
prev_step ==
    /\ Idle
    /\ current_screen = "soln"
    /\ IF simplex_solve = None THEN UNCHANGED vars
       ELSE IF on_last_object
       THEN (IF can_step_back(soln_index)
             THEN show_step(prev_index(soln_index)) /\ UNCHANGED soln_matrices
             ELSE UNCHANGED vars)
       ELSE (IF can_step_back(old.soln_index)
             THEN show_old_step(prev_index(old.soln_index))
             ELSE UNCHANGED vars)

\* first_step that also cuts the history back to its first tableau.
first_step_resetting ==
    /\ Idle
    /\ current_screen = "soln"
    /\ IF simplex_solve = None THEN UNCHANGED vars
       ELSE IF on_last_object
       THEN show_step(0) /\ soln_matrices' = <<soln_matrices[1]>>
       ELSE show_old_step(0)

\* The first button: simplex_solve.first_step().
first_step ==
    /\ Idle
    /\ current_screen = "soln"
    /\ IF simplex_solve = None THEN UNCHANGED vars
       ELSE IF on_last_object THEN show_step(0) /\ UNCHANGED soln_matrices
       ELSE show_old_step(0)

\* The last button: simplex_solve.last_step().
last_step ==
    /\ Idle
    /\ current_screen = "soln"
    /\ IF simplex_solve = None THEN UNCHANGED vars
       ELSE IF on_last_object
       THEN show_step(Len(soln_matrices) - 1) /\ UNCHANGED soln_matrices
       ELSE show_old_step(Len(old.soln_matrices) - 1)

Next == Calculate \/ Pivot \/ PivotRaises \/ SolveReturns

Spec == Init /\ [][Next]_vars

---------------------------------------------------------------------------
(* The engine followed by the step navigation of the solved session.       *)

NavigateSetups ==
    Scenarios
    \cup UNION {SetupsOf(nm[1], nm[2]) :
                   nm \in {nm \in Shapes : nm[1] + nm[2] <= MaxNavigateWidth}}

InitNavigate ==
    /\ \E s \in NavigateSetups : SLEVars = s.vars /\ SLEIneqs = s.ineqs
    /\ is_maximize \in BOOLEAN
    /\ val_matrix = <<>>
    /\ heap = <<>>
    /\ soln_matrices = <<>>
    /\ matrix = 0
    /\ pivot = NoPivot
    /\ pivots = 0
    /\ simplex_solve = None
    /\ soln_index = 0
    /\ label_matrix = <<>>
    /\ soln_step_label = ""
    /\ variables_edit = Len(SLEVars)
    /\ constraints_edit = Len(SLEIneqs)
    /\ max_min_button = (IF is_maximize THEN "Maximize" ELSE "Minimize")
    /\ ineq_labels = [i \in 1..Len(SLEIneqs) |-> ineq_text(is_maximize)]
    /\ current_screen = "setup"
    /\ previous_screen = "setup"
    /\ shown = {"setup"}
    /\ soln_table_layout = {}
    /\ header_labels = <<>>
    /\ this = 0
    /\ old = None
    /\ pc = "setup"

NextNavigate ==
    \/ Calculate
    \/ Pivot
    \/ PivotRaises
    \/ SolveReturns
    \/ next_step
    \/ prev_step
    \/ first_step
    \/ last_step

SpecNavigate == InitNavigate /\ [][NextNavigate]_vars

---------------------------------------------------------------------------
(* The engine on the numbers of Python: the fields hold whole numbers,     *)
(* get_fields reads them as floats, create_matrices casts them to ints and *)
(* solve divides and adds floats.                                          *)

\* float(widget.text()) of a field whose text is a whole number.
float_field(f) == IF f = Blank THEN f ELSE float_from_int(f[1])

float_setup(s) ==
    [vars |-> [j \in 1..Len(s.vars) |->
                  [val |-> float_field(s.vars[j].val),
                   constraint_col |->
                       [i \in 1..Len(s.vars[j].constraint_col) |->
                           float_field(s.vars[j].constraint_col[i])]]],
     ineqs |-> [i \in 1..Len(s.ineqs) |-> float_field(s.ineqs[i])]]

\* 2x1 + x2, 2x1 + 2x2 <= 3, 2x1 + 2x2 <= 3, 3x1 + x2 <= 2
ScenarioRhsRounds ==
    [vars |-> <<[val |-> R(2), constraint_col |-> <<R(2), R(2), R(3)>>],
                [val |-> R(1), constraint_col |-> <<R(2), R(2), R(1)>>]>>,
     ineqs |-> <<R(3), R(3), R(2)>>]

\* 4x1 + 3x2 + 3x3, 5x1 + 2x2 + 6x3 <= 3, 6x1 + x2 + 9x3 <= 2,
\* 8x1 + 6x2 + 4x3 <= 8
ScenarioObjectiveRounds ==
    [vars |-> <<[val |-> R(4), constraint_col |-> <<R(5), R(6), R(8)>>],
                [val |-> R(3), constraint_col |-> <<R(2), R(1), R(6)>>],
                [val |-> R(3), constraint_col |-> <<R(6), R(9), R(4)>>]>>,
     ineqs |-> <<R(3), R(2), R(8)>>]

FloatSetups ==
    {float_setup(s) :
        s \in {ScenarioRhsRounds, ScenarioObjectiveRounds}
                \cup UNION {SetupsOf(nm[1], nm[2]) :
                       nm \in {nm \in Shapes : nm[1] + nm[2] <= MaxFloatWidth}}}

InitFloat ==
    /\ \E s \in FloatSetups : SLEVars = s.vars /\ SLEIneqs = s.ineqs
    /\ is_maximize \in BOOLEAN
    /\ val_matrix = <<>>
    /\ heap = <<>>
    /\ soln_matrices = <<>>
    /\ matrix = 0
    /\ pivot = NoPivot
    /\ pivots = 0
    /\ simplex_solve = None
    /\ soln_index = 0
    /\ label_matrix = <<>>
    /\ soln_step_label = ""
    /\ variables_edit = Len(SLEVars)
    /\ constraints_edit = Len(SLEIneqs)
    /\ max_min_button = (IF is_maximize THEN "Maximize" ELSE "Minimize")
    /\ ineq_labels = [i \in 1..Len(SLEIneqs) |-> ineq_text(is_maximize)]
    /\ current_screen = "setup"
    /\ previous_screen = "setup"
    /\ shown = {"setup"}
    /\ soln_table_layout = {}
    /\ header_labels = <<>>
    /\ this = 0
    /\ old = None
    /\ pc = "setup"

SpecFloat == InitFloat /\ [][Next]_vars

---------------------------------------------------------------------------
(* The builder alone, on any table of rows.                                *)

BuilderVals == {R(1), R(2)}

BuilderRows == UNION {[1..l -> BuilderVals] : l \in 0..MaxRowLen}

BuilderTables == UNION {[1..k -> BuilderRows] : k \in 0..MaxTableRows}

InitBuilder ==
    /\ val_matrix \in BuilderTables
    /\ SLEVars = <<>>
    /\ SLEIneqs = <<>>
    /\ is_maximize = TRUE
    /\ heap = <<>>
    /\ soln_matrices = <<>>
    /\ matrix = 0
    /\ pivot = NoPivot
    /\ pivots = 0
    /\ simplex_solve = None
    /\ soln_index = 0
    /\ label_matrix = <<>>
    /\ soln_step_label = ""
    /\ variables_edit = 0
    /\ constraints_edit = 0
    /\ max_min_button = (IF is_maximize THEN "Maximize" ELSE "Minimize")
    /\ ineq_labels = [i \in 1..Len(SLEIneqs) |-> ineq_text(is_maximize)]
    /\ current_screen = "setup"
    /\ previous_screen = "setup"
    /\ shown = {"setup"}
    /\ soln_table_layout = {}
    /\ header_labels = <<>>
    /\ this = 0
    /\ old = None
    /\ pc = "builder"

\* create_matrices from the loop over val_matrix to the append, a first time
\* and a second time on the same table.
BuildOnly ==
    /\ pc \in {"builder", "built"}
    /\ heap' = Append(heap, create_soln_matrix(val_matrix))
    /\ soln_matrices' = Append(soln_matrices, Len(heap) + 1)
    /\ val_matrix' = val_matrix_after(val_matrix)
    /\ pc' = (IF pc = "builder" THEN "built" ELSE "rebuilt")
    /\ UNCHANGED <<setupVars, matrix, pivot, pivots, simplex_solve, labelVars,
                   screenVars, objectVars>>

SpecBuilder == InitBuilder /\ [][BuildOnly]_vars

---------------------------------------------------------------------------
(* The setup screen: the fields that set the numbers of variables and of   *)
(* constraints, and the fields of the problem.                             *)

InitSetup ==
    /\ LET u == update(<<>>, <<>>, START_VARIABLES, START_CONSTRAINTS)
       IN  SLEVars = u.SLEVars /\ SLEIneqs = u.SLEIneqs
    /\ variables_edit = START_VARIABLES
    /\ constraints_edit = START_CONSTRAINTS
    /\ is_maximize = TRUE
    /\ val_matrix = <<>>
    /\ heap = <<>>
    /\ soln_matrices = <<>>
    /\ matrix = 0
    /\ pivot = NoPivot
    /\ pivots = 0
    /\ simplex_solve = None
    /\ soln_index = 0
    /\ label_matrix = <<>>
    /\ soln_step_label = ""
    /\ max_min_button = (IF is_maximize THEN "Maximize" ELSE "Minimize")
    /\ ineq_labels = [i \in 1..Len(SLEIneqs) |-> ineq_text(is_maximize)]
    /\ current_screen = "setup"
    /\ previous_screen = "setup"
    /\ shown = {"setup"}
    /\ soln_table_layout = {}
    /\ header_labels = <<>>
    /\ this = 0
    /\ old = None
    /\ pc = "setup"

\* update: the labels of the inequalities after SLEIneqs.append of new
\* objects or SLEIneqs.pop(i + 1).delete().
update_ineq_labels(labels, edit_con_num) ==
    IF edit_con_num > Len(labels)
    THEN labels \o [i \in 1..(edit_con_num - Len(labels)) |-> new_ineq_label]
    ELSE pop_range(labels, edit_con_num, Len(labels))

\* The widgets of the setup screen take input while it is the current
\* screen and no handler runs.
on_setup_screen == Idle /\ current_screen = "setup"

\* The end of every handler of the two edit fields and their buttons:
\* simplex_setup.update() with the numbers the fields now hold.
update_called(edit_var_num, edit_con_num) ==
    /\ variables_edit' = edit_var_num
    /\ constraints_edit' = edit_con_num
    /\ LET u == update(SLEVars, SLEIneqs, edit_var_num, edit_con_num)
       IN  SLEVars' = u.SLEVars /\ SLEIneqs' = u.SLEIneqs
    /\ ineq_labels' = update_ineq_labels(ineq_labels, edit_con_num)
    /\ UNCHANGED <<is_maximize, max_min_button, solveVars, labelVars, screenVars,
                   objectVars, pc>>

variables_decrease ==
    /\ on_setup_screen
    /\ update_called(QLE_inc_dec(variables_edit, MIN_VARIABLES, MaxVariables, FALSE),
                     constraints_edit)

variables_increase ==
    /\ on_setup_screen
    /\ update_called(QLE_inc_dec(variables_edit, MIN_VARIABLES, MaxVariables, TRUE),
                     constraints_edit)

\* editingFinished of variables_edit, any number typed into it.
variables_edited ==
    /\ on_setup_screen
    /\ \E value \in 0..(MaxVariables + 1) :
           update_called(QLE_valid_range(value, MIN_VARIABLES, MaxVariables),
                         constraints_edit)

constraints_decrease ==
    /\ on_setup_screen
    /\ update_called(variables_edit,
                     QLE_inc_dec(constraints_edit, MIN_CONSTRAINTS, MaxConstraints,
                                 FALSE))

constraints_increase ==
    /\ on_setup_screen
    /\ update_called(variables_edit,
                     QLE_inc_dec(constraints_edit, MIN_CONSTRAINTS, MaxConstraints,
                                 TRUE))

\* editingFinished of constraints_edit, any number typed into it.
constraints_edited ==
    /\ on_setup_screen
    /\ \E value \in 0..(MaxConstraints + 1) :
           update_called(variables_edit,
                         QLE_valid_range(value, MIN_CONSTRAINTS, MaxConstraints))

\* The fields of the problem that hold a text.
TypedFields ==
    {<<"var", j, 0>> : j \in {j \in 1..Len(SLEVars) : SLEVars[j].val # Blank}}
    \cup {<<"ineq", i, 0>> : i \in {i \in 1..Len(SLEIneqs) : SLEIneqs[i] # Blank}}
    \cup UNION {{<<"con", j, i>> :
                    i \in {i \in 1..Len(SLEVars[j].constraint_col) :
                               SLEVars[j].constraint_col[i] # Blank}} :
                j \in 1..Len(SLEVars)}

FieldTexts == {R(1), R(2)}

\* A text is typed into a blank field of the problem.
type_text ==
    /\ on_setup_screen
    /\ Cardinality(TypedFields) < MaxTyped
    /\ \E text \in FieldTexts :
           \/ \E j \in 1..Len(SLEVars) :
                  /\ SLEVars[j].val = Blank
                  /\ SLEVars' = [SLEVars EXCEPT ![j].val = text]
                  /\ UNCHANGED SLEIneqs
           \/ \E j \in 1..Len(SLEVars) :
                  \E i \in 1..Len(SLEVars[j].constraint_col) :
                      /\ SLEVars[j].constraint_col[i] = Blank
                      /\ SLEVars' = [SLEVars EXCEPT ![j].constraint_col[i] = text]
                      /\ UNCHANGED SLEIneqs
           \/ \E i \in 1..Len(SLEIneqs) :
                  /\ SLEIneqs[i] = Blank
                  /\ SLEIneqs' = [SLEIneqs EXCEPT ![i] = text]
                  /\ UNCHANGED SLEVars
    /\ UNCHANGED <<is_maximize, variables_edit, constraints_edit,
                   max_min_button, ineq_labels, solveVars, labelVars,
                   screenVars, objectVars, pc>>

NextSetup ==
    \/ variables_decrease
    \/ variables_increase
    \/ variables_edited
    \/ constraints_decrease
    \/ constraints_increase
    \/ constraints_edited
    \/ type_text

SpecSetup == InitSetup /\ [][NextSetup]_vars

---------------------------------------------------------------------------
(* The application: the setup screen with its mode button, the calculate   *)
(* button, the solution screen and the settings screen.                    *)

\* The Maximize/Minimize button of the setup screen.  The loop runs over
\* the constraints there are and sets the text of the button in each turn.
toggle_max_min ==
    /\ on_setup_screen
    /\ ineq_labels' = [i \in 1..Len(ineq_labels) |-> ineq_text(~is_maximize)]
    /\ max_min_button' =
           (IF Len(ineq_labels) = 0 THEN max_min_button
            ELSE IF is_maximize THEN "Minimize" ELSE "Maximize")
    /\ is_maximize' = ~is_maximize
    /\ UNCHANGED <<SLEVars, SLEIneqs, variables_edit, constraints_edit,
                   solveVars, labelVars, screenVars, objectVars, pc>>

\* The settings buttons of the setup screen and of the solution screen.
open_settings ==
    /\ Idle
    /\ current_screen \in {"setup", "soln"}
    /\ change_screens("settings")
    /\ UNCHANGED <<setupVars, solveVars, labelVars, objectVars, pc>>

\* The back buttons of the solution screen and of the settings screen.
go_back ==
    /\ Idle
    /\ current_screen \in {"soln", "settings"}
    /\ change_screens(previous_screen)
    /\ UNCHANGED <<setupVars, solveVars, labelVars, objectVars, pc>>

\* An exception that leaves a slot is printed and the application goes on,
\* or PyQt ends the process (qFatal), depending on the version of PyQt5 and
\* on sys.excepthook; main.py installs no hook.
Aborts ==
    /\ pc = "unbounded"
    /\ pc' = "aborted"
    /\ UNCHANGED <<setupVars, solveVars, labelVars, screenVars, objectVars>>

\* x1, 0x1 <= 0, x1 <= 2: the column of x1 holds its only positive entry in
\* the last constraint.
ScenarioLastConstraint ==
    [vars |-> <<[val |-> R(1), constraint_col |-> <<Blank, R(1)>>],
                [val |-> Blank, constraint_col |-> <<Blank, Blank>>]>>,
     ineqs |-> <<Blank, R(2)>>]

\* The fields as the application starts, and the same with three of them
\* typed.
AppSetups ==
    {[vars |-> update(<<>>, <<>>, START_VARIABLES, START_CONSTRAINTS).SLEVars,
      ineqs |-> update(<<>>, <<>>, START_VARIABLES, START_CONSTRAINTS).SLEIneqs],
     ScenarioLastConstraint}

InitApp ==
    /\ \E s \in AppSetups : SLEVars = s.vars /\ SLEIneqs = s.ineqs
    /\ variables_edit = START_VARIABLES
    /\ constraints_edit = START_CONSTRAINTS
    /\ is_maximize = TRUE
    /\ val_matrix = <<>>
    /\ heap = <<>>
    /\ soln_matrices = <<>>
    /\ matrix = 0
    /\ pivot = NoPivot
    /\ pivots = 0
    /\ simplex_solve = None
    /\ soln_index = 0
    /\ label_matrix = <<>>
    /\ soln_step_label = ""
    /\ max_min_button = "Maximize"
    /\ ineq_labels = [i \in 1..Len(SLEIneqs) |-> new_ineq_label]
    /\ current_screen = "setup"
    /\ previous_screen = "setup"
    /\ shown = {"setup"}
    /\ soln_table_layout = {}
    /\ header_labels = <<>>
    /\ this = 0
    /\ old = None
    /\ pc = "setup"

NextApp ==
    \/ constraints_decrease
    \/ constraints_increase
    \/ toggle_max_min
    \/ Calculate
    \/ Pivot
    \/ PivotRaises
    \/ SolveReturns
    \/ Aborts
    \/ next_step
    \/ prev_step
    \/ first_step
    \/ last_step
    \/ open_settings
    \/ go_back

SpecApp == InitApp /\ [][NextApp]_vars

---------------------------------------------------------------------------
(* Vocabulary of the properties.                                           *)

\* The problem as entered: n variables, m constraints, A x <= b, objective c.
NumVars == Len(SLEVars)

NumCons == Len(SLEIneqs)

FieldValue(f) == IF f = Blank THEN Zero ELSE f

CoefA(i, j) == FieldValue(SLEVars[j].constraint_col[i])

RhsB(i) == FieldValue(SLEIneqs[i])

ObjC(j) == FieldValue(SLEVars[j].val)

IsSetup(s) == SLEVars = s.vars /\ SLEIneqs = s.ineqs

\* The i-th tableau of the history.
Tableau(i) == heap[soln_matrices[i]]

FirstTableau == Tableau(1)

LastTableau == Tableau(Len(soln_matrices))

\* The tableau the last pivot was chosen on, once a pivot was made.
PrePivotTableau == Tableau(Len(soln_matrices) - 1)

RNeg(a) == <<-a[1], a[2]>>

RLe(a, b) == ~RLt(b, a)

\* The columns of a row other than its right-hand side.
NonRhsCols(row) == 1..(Len(row) - 1)

NegativeOutsideRhs(row) == \E k \in NonRhsCols(row) : RLt(row[k], Zero)

RECURSIVE RSum(_, _)
RSum(f, k) == IF k = 0 THEN Zero ELSE RAdd(RSum(f, k - 1), f[k])

---------------------------------------------------------------------------
(* C1 *)

Scenario1Tableau ==
    << <<R(1), R(2), R(1), R(0), R(0), R(40)>>,
       <<R(1), R(1), R(0), R(1), R(0), R(30)>>,
       <<R(-12), R(-16), R(0), R(0), R(1), R(0)>> >>

\* C1: for a maximize problem with n variables and m constraints the initial
\* tableau has, in constraint row i, the n coefficients, then slack entries
\* that are 1 at position i and 0 elsewhere, then the RHS; its last row holds
\* the negated objective coefficients, 0 in every constraint's slack column,
\* 1 in the objective-tracking column and 0; the slack entries stand right
\* before the RHS column.  Scenario 1 gives the tableau of the specification.
C1_InitialTableau ==
    (pc \in {"solving", "optimal", "unbounded"} /\ is_maximize) =>
        LET n == NumVars
            m == NumCons
            w == n + m + 2
        IN  /\ Len(FirstTableau) = m + 1
            /\ \A i \in 1..m :
                   FirstTableau[i] =
                       [k \in 1..w |->
                           IF k <= n THEN CoefA(i, k)
                           ELSE IF k = w THEN RhsB(i)
                           ELSE IF k = n + i THEN One ELSE Zero]
            /\ FirstTableau[m + 1] =
                   [k \in 1..w |->
                       IF k <= n THEN RNeg(ObjC(k))
                       ELSE IF k = w - 1 THEN One ELSE Zero]
            /\ (IsSetup(Scenario1) => FirstTableau = Scenario1Tableau)

C1_Witness ==
    /\ pc = "solving"
    /\ pivots = 0
    /\ is_maximize
    /\ IsSetup(Scenario1)
    /\ FirstTableau = Scenario1Tableau

---------------------------------------------------------------------------
(* C2 *)

\* C2: when no constraint row has a positive entry in the pivot column, solve
\* stops with the unbounded failure and the history accumulated so far is
\* returned to the caller; for objective x1 with -x1 <= 10 this happens on
\* the first iteration, with a history of length 1.
C2_HistoryReturnedOnUnbounded ==
    /\ (pc = "unbounded" => simplex_solve # None)
    /\ (IsSetup(Scenario2) /\ is_maximize /\ pc \in {"optimal", "unbounded"}
            => pc = "unbounded" /\ pivots = 0 /\ Len(soln_matrices) = 1)

---------------------------------------------------------------------------
(* C3 *)

---------------------------------------------------------------------------
(* C4 *)

---------------------------------------------------------------------------
(* C5 *)

\* The ratio RHS / entry of row r is below that of row s; both entries are
\* positive.
RatioLt(t, c, r, s) ==
    RLt(RMul(Last(t[r]), t[s][c]), RMul(Last(t[s]), t[r][c]))

\* C5: the pivot row of every pivot is a constraint row, never the objective
\* row, whose entry in the pivot column is positive and whose ratio RHS /
\* entry is the smallest among such rows; a row whose entry is <= 0 is never
\* chosen, and of several rows with the smallest ratio the first is chosen.
C5_PivotRow ==
    pivots > 0 =>
        LET t == PrePivotTableau
            c == pivot.col
            r == pivot.row
        IN  /\ r \in 1..(Len(t) - 1)
            /\ RLt(Zero, t[r][c])
            /\ \A s \in 1..(Len(t) - 1) :
                   RLt(Zero, t[s][c]) =>
                       /\ ~RatioLt(t, c, s, r)
                       /\ (~RatioLt(t, c, r, s) => r <= s)

\* A pivot chosen among two rows of equal smallest ratio, with a third row
\* shut out by a non-positive entry.
C5_Witness ==
    /\ pivots > 0
    /\ LET t == PrePivotTableau
           c == pivot.col
           r == pivot.row
       IN  /\ \E s \in 1..(Len(t) - 1) :
                  /\ s # r
                  /\ RLt(Zero, t[s][c])
                  /\ ~RatioLt(t, c, r, s)
                  /\ ~RatioLt(t, c, s, r)
           /\ \E s \in 1..(Len(t) - 1) : ~RLt(Zero, t[s][c])

---------------------------------------------------------------------------
(* C6 *)

\* C6: in the tableau a pivot appends, the pivot column of that pivot is 1 in
\* the pivot row and 0 in every other row, the objective row included.
C6_PivotColumnCleared ==
    pivots > 0 =>
        \A s \in 1..Len(LastTableau) :
            LastTableau[s][pivot.col] = (IF s = pivot.row THEN One ELSE Zero)

\* A pivot on a value other than 1 with a non-zero entry above or below it.
C6_Witness ==
    /\ pivots > 0
    /\ pivot.val # One
    /\ \E s \in 1..Len(PrePivotTableau) :
           s # pivot.row /\ PrePivotTableau[s][pivot.col] # Zero
    /\ \A s \in 1..Len(LastTableau) :
           LastTableau[s][pivot.col] = (IF s = pivot.row THEN One ELSE Zero)

---------------------------------------------------------------------------
(* C7 *)

\* Every tableau of the history keeps its entries, and the history grows by
\* at most one tableau.
HistoryKept ==
    /\ Len(soln_matrices') \in {Len(soln_matrices), Len(soln_matrices) + 1}
    /\ \A i \in 1..Len(soln_matrices) :
           heap'[soln_matrices'[i]] = heap[soln_matrices[i]]

\* C7: during solve the history is append-only: every completed pivot appends
\* exactly one tableau, so that its length is the number of pivots plus one,
\* and no tableau already in it, the initial one included, is changed by a
\* later pivot.  Objective 2x1 with x1 <= 5 takes one pivot and ends with a
\* history of length 2.
C7_HistoryAppendOnly ==
    /\ [](pc \in {"solving", "optimal", "unbounded"}
              => Len(soln_matrices) = pivots + 1)
    /\ [][HistoryKept]_vars
    /\ [](IsSetup(Scenario3) /\ is_maximize /\ pc \in {"optimal", "unbounded"}
              => pc = "optimal" /\ pivots = 1 /\ Len(soln_matrices) = 2)

\* A history of three tableaux, each differing from the one before.
C7_Witness ==
    /\ pivots = 2
    /\ Len(soln_matrices) = 3
    /\ Tableau(1) # Tableau(2)
    /\ Tableau(2) # Tableau(3)

---------------------------------------------------------------------------
(* C8 *)

\* C8: when solve ends in the optimal state, the first tableau of the history
\* is the one the builder produced and the objective row of the last tableau
\* has no negative entry outside the RHS column.
C8_OptimalHistory ==
    pc = "optimal" =>
        /\ FirstTableau = create_soln_matrix(val_matrix)
        /\ val_matrix = get_fields(SLEVars, SLEIneqs, ~is_maximize)
        /\ ~NegativeOutsideRhs(Last(LastTableau))

C8_Witness ==
    /\ pc = "optimal"
    /\ pivots >= 2
    /\ NegativeOutsideRhs(Last(FirstTableau))
    /\ ~NegativeOutsideRhs(Last(LastTableau))

---------------------------------------------------------------------------
(* C9 *)

\* x >= 0 and A x <= b.
Feasible(x) ==
    /\ \A j \in 1..NumVars : RLe(Zero, x[j])
    /\ \A i \in 1..NumCons :
           RLe(RSum([j \in 1..NumVars |-> RMul(CoefA(i, j), x[j])], NumVars),
               RhsB(i))

ObjectiveAt(x) == RSum([j \in 1..NumVars |-> RMul(ObjC(j), x[j])], NumVars)

\* y >= 0 and y A >= c: then c x <= y A x <= y b for every feasible x.
DualFeasible(y) ==
    /\ \A i \in 1..NumCons : RLe(Zero, y[i])
    /\ \A j \in 1..NumVars :
           RLe(ObjC(j),
               RSum([i \in 1..NumCons |-> RMul(CoefA(i, j), y[i])], NumCons))

DualBound(y) == RSum([i \in 1..NumCons |-> RMul(RhsB(i), y[i])], NumCons)

\* z is the maximum of the objective over the feasible region: a feasible
\* point among the candidates attains it and a dual feasible y bounds the
\* objective by it.
IsMaximum(z, candidates, y) ==
    /\ \E x \in [1..NumVars -> candidates] : Feasible(x) /\ ObjectiveAt(x) = z
    /\ DualFeasible(y)
    /\ DualBound(y) = z

ObjectiveValue == Last(Last(LastTableau))

---------------------------------------------------------------------------
(* C10 *)

\* The rows differ in length, or there is no constraint row, or no variable
\* column.
Malformed(vm) ==
    \/ Len(vm) < 2
    \/ \E i \in 1..Len(vm) : Len(vm[i]) # Len(vm[1])
    \/ Len(vm[1]) < 2

---------------------------------------------------------------------------
(* C11 *)

\* The table handed to the builder: its constraint rows and its variables.
TableCons == Len(val_matrix) - 1

TableVars == Len(val_matrix[1]) - 1

HasDimensions(t, rows, cols) ==
    /\ Len(t) = rows
    /\ \A r \in 1..Len(t) : Len(t[r]) = cols

\* The table has the constraints of the problem as its rows when maximizing
\* and the variables of the problem as its rows when minimizing.
TableOfSetup ==
    IF is_maximize
    THEN TableCons = NumCons /\ TableVars = NumVars
    ELSE TableCons = NumVars /\ TableVars = NumCons

\* C11 (as amended): every tableau in the history has (number of constraints
\* + 1) rows with the objective row last, and (number of variables + number
\* of constraints + 2) columns: one column per variable, one slack column
\* per constraint, one objective-tracking column and one RHS column.
C11_Dimensions ==
    pc \in {"solving", "optimal", "unbounded"} =>
        /\ TableOfSetup
        /\ \A i \in 1..Len(soln_matrices) :
               HasDimensions(Tableau(i), TableCons + 1, TableVars + TableCons + 2)
        /\ \A k \in 1..TableVars :
               Last(FirstTableau)[k] = RNeg(Last(val_matrix)[k])

\* C11 (as stated): the same with (number of variables + number of
\* constraints + 1) columns: one per variable, one slack column per
\* constraint and one RHS column.
C11_DimensionsAsStated ==
    pc \in {"solving", "optimal", "unbounded"} =>
        \A i \in 1..Len(soln_matrices) :
            HasDimensions(Tableau(i), TableCons + 1, TableVars + TableCons + 1)

\* A history of three tableaux of 3 rows and 6 columns, for 2 variables and
\* 2 constraints.
C11_Witness ==
    /\ pivots = 2
    /\ NumVars = 2
    /\ NumCons = 2
    /\ \A i \in 1..3 : HasDimensions(Tableau(i), 3, 6)

---------------------------------------------------------------------------
(* C12 *)

\* C12: on a solved session, after any sequence of first_step, prev_step,
\* next_step and last_step, 0 <= soln_index < len(soln_matrices).
C12_CursorInRange ==
    pc = "optimal" => (0 <= soln_index /\ soln_index < Len(soln_matrices))

\* The cursor moved from the first to the last of three tableaux.
C12_Witness ==
    /\ pc = "optimal"
    /\ Len(soln_matrices) = 3
    /\ soln_index = 2
    /\ soln_step_label = "3 / 3"

---------------------------------------------------------------------------
(* C13 *)

LastIndex == Len(soln_matrices) - 1

\* C13: first_step sets the cursor to 0 and last_step to len - 1; next_step
\* adds 1 unless the cursor is at the last index and prev_step subtracts 1
\* unless it is 0; at those boundaries next_step and prev_step can be taken
\* again and again and change nothing.
C13_NavigationSteps ==
    /\ [][/\ first_step => soln_index' = 0
          /\ last_step => soln_index' = LastIndex
          /\ next_step =>
                 IF soln_index = LastIndex THEN UNCHANGED vars
                 ELSE soln_index' = soln_index + 1
          /\ prev_step =>
                 IF soln_index = 0 THEN UNCHANGED vars
                 ELSE soln_index' = soln_index - 1]_vars
    /\ [](pc = "optimal" => ENABLED next_step /\ ENABLED prev_step)

\* The cursor stands on the second of at least four tableaux: it was moved
\* there by steps of one.
C13_Witness ==
    /\ pc = "optimal"
    /\ Len(soln_matrices) >= 4
    /\ soln_index = 1
    /\ soln_step_label = step_text(1, Len(soln_matrices))

---------------------------------------------------------------------------
(* C14 *)

Navigation == next_step \/ prev_step \/ first_step \/ last_step

\* C14: no navigation operation changes the history: soln_matrices keeps its
\* length and every tableau its entries, as they were when solve finished
\* (the first is the builder's, the last the one the loop ended on, one per
\* pivot between them).
C14_NavigationKeepsHistory ==
    /\ [][Navigation =>
              /\ Len(soln_matrices') = Len(soln_matrices)
              /\ \A i \in 1..Len(soln_matrices) :
                     heap'[soln_matrices'[i]] = heap[soln_matrices[i]]]_vars
    /\ [](pc = "optimal" =>
              /\ Len(soln_matrices) = pivots + 1
              /\ FirstTableau = create_soln_matrix(val_matrix)
              /\ LastTableau = heap[matrix])

\* The cursor was moved to the middle of a history of three tableaux, which
\* still differ from one another.
C14_Witness ==
    /\ pc = "optimal"
    /\ Len(soln_matrices) = 3
    /\ soln_index = 1
    /\ Tableau(1) # Tableau(2)
    /\ Tableau(2) # Tableau(3)
    /\ LastTableau = heap[matrix]

---------------------------------------------------------------------------
(* C15 *)

\* C15: after construction and after every navigation operation the step
\* indicator shows (cursor + 1) / (number of tableaux) and every table label
\* shows the entry of the tableau at the cursor, same row and column.
C15_LabelsShowCursor ==
    pc = "optimal" =>
        /\ soln_step_label =
               ToString(soln_index + 1) \o " / " \o ToString(Len(soln_matrices))
        /\ Len(label_matrix) = Len(Tableau(soln_index + 1))
        /\ \A row \in 1..Len(label_matrix) :
               /\ Len(label_matrix[row]) = Len(Tableau(soln_index + 1)[row])
               /\ \A col \in 1..Len(label_matrix[row]) :
                      label_matrix[row][col] =
                          label_text(Tableau(soln_index + 1)[row][col])

\* Scenario 1 at its second tableau, reached by navigation.
C15_Witness ==
    /\ pc = "optimal"
    /\ IsSetup(Scenario1)
    /\ is_maximize
    /\ soln_index = 1
    /\ soln_step_label = "2 / 3"
    /\ label_matrix[1] = <<"1/2", "1", "1/2", "0", "0", "20">>

---------------------------------------------------------------------------
(* C16 *)

---------------------------------------------------------------------------
(* C17 *)

\* C17: the arithmetic of the tableaux is exact: every stored entry is
\* exactly the rational result of the row operations.
C17_ExactArithmetic ==
    \A i \in 1..Len(soln_matrices) :
        \A r \in 1..Len(Tableau(i)) :
            \A c \in 1..Len(Tableau(i)[r]) : is_binary64(Tableau(i)[r][c])

---------------------------------------------------------------------------
(* C18 *)

\* The text of the rational a: the bare integer, or numerator/denominator.
Shown(a) ==
    IF a[2] = 1 THEN ToString(a[1])
    ELSE ToString(a[1]) \o "/" \o ToString(a[2])

\* The label of the RHS of the first constraint, shown at the last tableau.
FirstRhsLabel == Last(label_matrix[1])

\* C18: update_labels shows an integral entry as the bare integer and any
\* other entry as numerator/denominator in lowest terms: 10/3 is shown as
\* "10/3" and 6/2 as "3".
C18_FractionDisplay ==
    pc = "optimal" =>
        /\ \A row \in 1..Len(label_matrix) :
               \A col \in 1..Len(label_matrix[row]) :
                   LET a == Tableau(soln_index + 1)[row][col]
                   IN  /\ GCD(Abs(a[1]), a[2]) = 1
                       /\ label_matrix[row][col] = Shown(a)
        /\ (IsSetup(ScenarioTenThirds) /\ is_maximize /\ soln_index = 1
                => /\ Last(Tableau(2)[1]) = RDiv(R(10), R(3))
                   /\ FirstRhsLabel = "10/3")
        /\ (IsSetup(ScenarioSixHalves) /\ is_maximize /\ soln_index = 1
                => /\ Last(Tableau(2)[1]) = RDiv(R(6), R(2))
                   /\ FirstRhsLabel = "3")

---------------------------------------------------------------------------
(* C19 *)

---------------------------------------------------------------------------
(* C20 *)

\* C20: after any sequence of update calls that add or remove variables and
\* constraints, get_fields returns a rectangular table: with v variables
\* and c constraints, c + 1 rows of v + 1 entries (v + 1 rows of c + 1
\* entries when transposed), the objective row last and 0 as the RHS entry
\* of the objective row.
C20_FieldsRectangular ==
    LET v == variables_edit
        c == constraints_edit
        t == get_fields(SLEVars, SLEIneqs, FALSE)
        tt == get_fields(SLEVars, SLEIneqs, TRUE)
    IN  /\ Len(SLEVars) = v
        /\ Len(SLEIneqs) = c
        /\ HasDimensions(t, c + 1, v + 1)
        /\ HasDimensions(tt, v + 1, c + 1)
        /\ \A j \in 1..v : Last(t)[j] = ObjC(j)
        /\ \A i \in 1..c : Last(tt)[i] = RhsB(i)
        /\ Last(Last(t)) = Zero
        /\ Last(Last(tt)) = Zero

\* Three variables and one constraint, from two of each, with a text left
\* in a field.
C20_Witness ==
    /\ Len(SLEVars) = 3
    /\ Len(SLEIneqs) = 1
    /\ SLEVars[1].constraint_col = <<R(2)>>
    /\ get_fields(SLEVars, SLEIneqs, FALSE) =
           << <<R(2), Zero, Zero, Zero>>, <<Zero, Zero, Zero, Zero>> >>

---------------------------------------------------------------------------
(* C22 *)

RSub(a, b) == RAdd(a, RNeg(b))

\* The reference row reduction of tableau t on the pivot p.
ReferencePivotRow(t, p) ==
    [i \in 1..Len(t[p.row]) |-> RDiv(t[p.row][i], p.val)]

ReferenceReduction(t, p) ==
    [r \in 1..Len(t) |->
        IF r = p.row THEN ReferencePivotRow(t, p)
        ELSE [i \in 1..Len(t[r]) |->
                 RSub(t[r][i], RMul(t[r][p.col], ReferencePivotRow(t, p)[i]))]]

\* C22: one pivot step of solve equals the reference row reduction: the new
\* pivot row is the old pivot row divided component-wise by the pivot value,
\* every other row r, the objective row included, becomes old row(r) - k *
\* new pivot row with k the entry of row r in the pivot column before the
\* step, and rows with k = 0 are unchanged.
C22_ReferenceReduction ==
    pivots > 0 =>
        /\ pivot.val = PrePivotTableau[pivot.row][pivot.col]
        /\ LastTableau = ReferenceReduction(PrePivotTableau, pivot)
        /\ \A r \in 1..Len(LastTableau) :
               (r # pivot.row /\ PrePivotTableau[r][pivot.col] = Zero)
                   => LastTableau[r] = PrePivotTableau[r]

\* A pivot on a value other than 1, with a row it changes right of the pivot
\* column and a row it leaves alone.
C22_Witness ==
    /\ pivots > 0
    /\ pivot.val # One
    /\ \E r \in 1..Len(LastTableau) :
           /\ r # pivot.row
           /\ PrePivotTableau[r][pivot.col] # Zero
           /\ \E i \in (pivot.col + 1)..Len(LastTableau[r]) :
                  LastTableau[r][i] # PrePivotTableau[r][i]
    /\ \E r \in 1..Len(LastTableau) :
           /\ r # pivot.row
           /\ PrePivotTableau[r][pivot.col] = Zero
           /\ LastTableau[r] = PrePivotTableau[r]
    /\ LastTableau = ReferenceReduction(PrePivotTableau, pivot)

---------------------------------------------------------------------------
(* C23 *)

\* The coefficient table of the problem as entered: one row per constraint
\* (its coefficients, then its RHS) and the objective row last, closed by 0.
MaximizeTable ==
    [i \in 1..(NumCons + 1) |->
        [j \in 1..(NumVars + 1) |->
            IF i <= NumCons
            THEN (IF j <= NumVars THEN CoefA(i, j) ELSE RhsB(i))
            ELSE (IF j <= NumVars THEN ObjC(j) ELSE Zero)]]

\* The matrix transpose of a rectangular table.
Transposed(t) ==
    [c \in 1..Len(t[1]) |-> [r \in 1..Len(t) |-> t[r][c]]]

\* The column of the tableau that holds entry k of a row of the table.
TableauCol(t, k) == IF k = Len(val_matrix[1]) THEN Len(t[1]) ELSE k

\* C23: in minimize mode create_matrices builds the tableau from the matrix
\* transpose of the coefficient table it uses in maximize mode
\* (get_fields(True) is the transpose of get_fields(False)), and in both
\* modes it negates exactly the last row of the table it received and no
\* other row.
C23_TransposeAndNegation ==
    pc \in {"solving", "optimal", "unbounded"} =>
        /\ get_fields(SLEVars, SLEIneqs, FALSE) = MaximizeTable
        /\ get_fields(SLEVars, SLEIneqs, TRUE)
               = Transposed(get_fields(SLEVars, SLEIneqs, FALSE))
        /\ val_matrix =
               (IF is_maximize THEN MaximizeTable ELSE Transposed(MaximizeTable))
        /\ \A r \in 1..Len(val_matrix) :
               \A k \in 1..Len(val_matrix[r]) :
                   FirstTableau[r][TableauCol(FirstTableau, k)] =
                       (IF r = Len(val_matrix) THEN RNeg(val_matrix[r][k])
                        ELSE val_matrix[r][k])

\* A minimize problem with more constraints than variables: the table is
\* the transpose, it differs in shape from the table of maximize mode, and
\* its last row, the right-hand sides, is negated in the tableau.
C23_Witness ==
    /\ pc = "solving"
    /\ pivots = 0
    /\ ~is_maximize
    /\ NumCons > NumVars
    /\ val_matrix = Transposed(MaximizeTable)
    /\ Len(val_matrix) = NumVars + 1
    /\ \E k \in 1..NumCons :
           /\ RhsB(k) # Zero
           /\ Last(FirstTableau)[k] = RNeg(RhsB(k))
    /\ \E r \in 1..NumVars : \E k \in 1..NumCons :
           CoefA(k, r) # Zero /\ FirstTableau[r][k] = CoefA(k, r)

---------------------------------------------------------------------------
(* C25 *)

Sign(a) == IF RLt(a, Zero) THEN -1 ELSE IF RLt(Zero, a) THEN 1 ELSE 0

\* C25: whenever find_pivot returns, the pivot value it returns is strictly
\* positive, so that the division of the pivot row by the pivot value in
\* solve never divides by zero and never flips the sign of the RHS of the
\* pivot row.
C25_PivotPositive ==
    /\ (pc = "solving" /\ is_negative(Last(heap[matrix]))
            /\ ~find_pivot_raises(heap[matrix]))
           => RLt(Zero, find_pivot(heap[matrix]).val)
    /\ pivots > 0 =>
           /\ RLt(Zero, pivot.val)
           /\ pivot.val = PrePivotTableau[pivot.row][pivot.col]
           /\ Sign(Last(LastTableau[pivot.row]))
                  = Sign(Last(PrePivotTableau[pivot.row]))

\* A pivot on a value other than 1, in a column that also holds an entry that
\* is not positive, on a row with a negative RHS, which stays negative.
C25_Witness ==
    /\ pivots > 0
    /\ RLt(Zero, pivot.val)
    /\ pivot.val # One
    /\ \E r \in 1..(Len(PrePivotTableau) - 1) :
           ~RLt(Zero, PrePivotTableau[r][pivot.col])
    /\ RLt(Last(PrePivotTableau[pivot.row]), Zero)
    /\ RLt(Last(LastTableau[pivot.row]), Zero)

---------------------------------------------------------------------------
(* C26 and C27 *)

\* Every constraint row of the initial tableau has RHS >= 0.
InitialRhsNonNegative ==
    \A r \in 1..(Len(FirstTableau) - 1) : RLe(Zero, Last(FirstTableau[r]))

\* C26: if every constraint row of the initial tableau has RHS >= 0, every
\* constraint row of every tableau of the history has RHS >= 0.
C26_RhsStaysNonNegative ==
    (pc \in {"solving", "optimal", "unbounded"} /\ InitialRhsNonNegative) =>
        \A i \in 1..Len(soln_matrices) :
            \A r \in 1..(Len(Tableau(i)) - 1) :
                RLe(Zero, Last(Tableau(i)[r]))

\* The RHS entry of the objective row of the i-th tableau.
ObjectiveRhs(i) == Last(Last(Tableau(i)))

\* C27: if every constraint row of the initial tableau has RHS >= 0, the RHS
\* entry of the objective row never decreases from one tableau of the
\* history to the next, and stays >= 0.
C27_ObjectiveNeverDecreases ==
    (pc \in {"solving", "optimal", "unbounded"} /\ InitialRhsNonNegative) =>
        /\ \A i \in 1..Len(soln_matrices) : RLe(Zero, ObjectiveRhs(i))
        /\ \A i \in 1..(Len(soln_matrices) - 1) :
               RLe(ObjectiveRhs(i), ObjectiveRhs(i + 1))

---------------------------------------------------------------------------
(* C28 *)

\* The objective-tracking column of tableau t: the one before the RHS.
TrackingCol(t) == Len(t[1]) - 1

\* C28: in every tableau of the history the objective-tracking column is as
\* in the initial tableau, 0 in every constraint row and 1 in the objective
\* row, and it is never chosen as pivot column.
C28_TrackingColumn ==
    /\ \A i \in 1..Len(soln_matrices) :
           \A r \in 1..Len(Tableau(i)) :
               Tableau(i)[r][TrackingCol(Tableau(i))] =
                   (IF r = Len(Tableau(i)) THEN One ELSE Zero)
    /\ pivots > 0 => pivot.col # TrackingCol(PrePivotTableau)
    /\ (pc = "solving" /\ is_negative(Last(heap[matrix])))
           => find_pivot_col(heap[matrix]) # TrackingCol(heap[matrix])

\* Three pivots, each of which changed a slack column, with the tracking
\* column still 0, ..., 0, 1 in the last tableau.
C28_Witness ==
    /\ pivots >= 3
    /\ \A i \in 1..(Len(soln_matrices) - 1) :
           \E r \in 1..Len(Tableau(i)) :
               \E c \in (TableVars + 1)..(TrackingCol(Tableau(i)) - 1) :
                   Tableau(i)[r][c] # Tableau(i + 1)[r][c]
    /\ \A r \in 1..Len(LastTableau) :
           LastTableau[r][TrackingCol(LastTableau)] =
               (IF r = Len(LastTableau) THEN One ELSE Zero)

---------------------------------------------------------------------------
(* C21 *)

\* A calculate has ended: __init__ returned or raised.
CalculateEnds == pc = "solving" /\ pc' \in {"optimal", "unbounded"}

\* C21: every calculate discards the previous session: when it ends,
\* simplex_solve refers to the SimplexSolve it made, whose cursor is 0 and
\* whose history starts with the tableau of the fields and of the mode of
\* this invocation and holds no tableau of an earlier session.
C21_CalculateStartsAfresh ==
    [][CalculateEnds =>
          /\ simplex_solve' = <<this'>>
          /\ referred'.soln_index = 0
          /\ heap'[referred'.soln_matrices[1]] =
                 create_soln_matrix(get_fields(SLEVars', SLEIneqs', ~is_maximize'))
          /\ old' # None =>
                 \A i \in 1..Len(referred'.soln_matrices) :
                     \A j \in 1..Len(old'.soln_matrices) :
                         referred'.soln_matrices[i] # old'.soln_matrices[j]]_vars

---------------------------------------------------------------------------
(* C24 *)

\* One screen is shown and it is the current one; on the solution screen
\* the back button leads to the setup screen, and on the settings screen to
\* the setup screen or to the solution screen.
OneScreen ==
    /\ current_screen \in {"setup", "soln", "settings"}
    /\ shown = {current_screen}
    /\ current_screen = "soln" => previous_screen = "setup"
    /\ current_screen = "settings" => previous_screen \in {"setup", "soln"}

\* The settings screen remembers the screen it was opened from, and is left
\* for that screen only.
BackToOpener ==
    /\ (current_screen # "settings" /\ current_screen' = "settings") =>
           previous_screen' = current_screen
    /\ (current_screen = "settings" /\ current_screen' = "settings") =>
           previous_screen' = previous_screen
    /\ (current_screen = "settings" /\ current_screen' # "settings") =>
           current_screen' = previous_screen
    /\ (current_screen = "soln" /\ go_back) => current_screen' = "setup"

\* C24: after any sequence of calculate, open_settings and go_back exactly
\* one screen is current; go_back from the settings screen returns to the
\* screen that opened it, and go_back from the solution screen leads to the
\* setup screen, never to the settings screen.
C24_Screens == []OneScreen /\ [][BackToOpener]_vars

\* The settings screen, opened from the solution screen of a second
\* session of which the first was left through the settings screen.
C24_Witness ==
    /\ current_screen = "settings"
    /\ previous_screen = "soln"
    /\ this = 2
    /\ pc = "optimal"

---------------------------------------------------------------------------
(* C29 *)

\* C29: after any sequence of toggle_max_min and of increases and decreases
\* of the number of constraints, the label of every inequality agrees with
\* the mode ("<=" when is_maximize, ">=" otherwise) and the button reads
\* "Maximize" exactly when is_maximize.
C29_LabelsAgreeWithMode ==
    /\ \A i \in 1..Len(ineq_labels) : ineq_labels[i] = ineq_text(is_maximize)
    /\ (max_min_button = "Maximize") <=> is_maximize

---------------------------------------------------------------------------
(* C30 *)

\* The labels owned by the object simplex_solve refers to.
OwnedLabels ==
    IF simplex_solve = None THEN {}
    ELSE labels_of(referred.id, referred.header_labels, referred.label_matrix)

\* The places of a table with a header and one label per entry of tableau t.
FullTable(k, t) ==
    {<<k, 0, col>> : col \in 1..Len(t[1])}
    \cup UNION {{<<k, row, col>> : col \in 1..Len(t[row])} : row \in 1..Len(t)}

\* C30: after every calculate, a failing one included, the layout of the
\* solution table holds only labels owned by the SimplexSolve that
\* simplex_solve refers to: one header label per column of the tableau and
\* one label per entry, none left over.
C30_LayoutHoldsCurrentLabels ==
    (pc \in {"optimal", "unbounded"}) =>
        /\ soln_table_layout = OwnedLabels
        /\ simplex_solve # None
        /\ soln_table_layout =
               FullTable(referred.id, heap[referred.soln_matrices[1]])
====
